---- MODULE Spec2Model ----
(***************************************************************************)
(* airkorea: extraction of an AirStatus from the Airkorea mobile page.     *)
(*                                                                         *)
(* A Rust `String`/`&str` is modelled as a sequence of one-character       *)
(* strings (<<"P","M">> is "PM"); a Hangul syllable is one character,      *)
(* written by its code point.                                              *)
(* An `Option<T>` is a sequence of length at most one: None is <<>> and    *)
(* Some(v) is <<v>>.  An element of the parsed Html is modelled by what    *)
(* the code reads of it: the sequence of its descendant text nodes, in     *)
(* document order (`ElementRef::text()`).                                  *)
(***************************************************************************)
EXTENDS Integers, Sequences, FiniteSets

VARIABLES
    html,       \* Option<Html>: the document request resolved to
    status,     \* Option<Result<AirStatus, Error>>: what search resolved to
    iterated,   \* Option<Vec<Pollutant>>: what `for pollutant in status` yielded
    input,      \* the argument of the function under study (unit specifications)
    output,     \* Option<its result>
    pc          \* position of the caller

vars == <<html, status, iterated, input, output, pc>>

----------------------------------------------------------------------------
(* Option<T> and string helpers of the Rust standard library *)

None == <<>>
Some(v) == <<v>>
is_some(o) == Len(o) = 1
is_none(o) == Len(o) = 0
unwrap(o) == o[1]
\* Option::unwrap_or_default for Option<String> / Option<&str> / Option<Vec<_>>
unwrap_or_default(o) == IF is_some(o) THEN o[1] ELSE <<>>

\* s[i..j] (1-based, inclusive); the empty string when j < i
Slice(s, i, j) == [k \in 1..(j - i + 1) |-> s[i + k - 1]]

\* does the literal lit occur in s at position i
StartsWithAt(s, i, lit) ==
    /\ i >= 1
    /\ i + Len(lit) - 1 <= Len(s)
    /\ \A k \in 1..Len(lit) : s[i + k - 1] = lit[k]

\* str::starts_with
starts_with(s, lit) == StartsWithAt(s, 1, lit)

\* char::is_whitespace, for the characters the model draws
IsWhitespace(c) == c \in {" ", "\n", "\t"}

\* str::trim_start and str::trim_end
RECURSIVE trim_start(_)
trim_start(s) ==
    IF s # <<>> /\ IsWhitespace(Head(s)) THEN trim_start(Tail(s)) ELSE s

RECURSIVE trim_end(_)
trim_end(s) ==
    IF s # <<>> /\ IsWhitespace(s[Len(s)])
    THEN trim_end(SubSeq(s, 1, Len(s) - 1)) ELSE s

\* str::trim: drop leading and trailing whitespace
trim(s) == trim_end(trim_start(s))

\* [&str]::join(""): concatenation of a sequence of strings
RECURSIVE join(_)
join(ss) == IF ss = <<>> THEN <<>> ELSE Head(ss) \o join(Tail(ss))

\* str::split(pat): the pieces between the non-overlapping occurrences of pat,
\* scanned left to right; always occurrences + 1 pieces
RECURSIVE SplitFrom(_, _, _, _)
SplitFrom(s, pat, start, i) ==
    IF i + Len(pat) - 1 > Len(s)
    THEN <<Slice(s, start, Len(s))>>
    ELSE IF StartsWithAt(s, i, pat)
         THEN <<Slice(s, start, i - 1)>>
              \o SplitFrom(s, pat, i + Len(pat), i + Len(pat))
         ELSE SplitFrom(s, pat, start, i + 1)

split(s, pat) == SplitFrom(s, pat, 1, 1)

\* Iterator::next on a sequence of matches: the first one, if any
next(iter) == IF iter = <<>> THEN None ELSE Some(Head(iter))

\* zip that runs to the end of b, with an empty Vec where a has run out
zip_pad(a, b) ==
    [k \in 1..Len(b) |-> <<IF k <= Len(a) THEN a[k] ELSE <<>>, b[k]>>]

\* Iterator::zip: pairs up to the shorter of the two
zip(a, b) ==
    LET n == IF Len(a) <= Len(b) THEN Len(a) ELSE Len(b)
    IN  [k \in 1..n |-> <<a[k], b[k]>>]

Max(S) == CHOOSE x \in S : \A y \in S : x >= y
Min(S) == CHOOSE x \in S : \A y \in S : x <= y

----------------------------------------------------------------------------
(* enum Grade, in its derived order None < Good < Normal < Bad < Critical *)

GradeNone == "None"
GradeGood == "Good"
GradeNormal == "Normal"
GradeBad == "Bad"
GradeCritical == "Critical"
Grade == {GradeNone, GradeGood, GradeNormal, GradeBad, GradeCritical}

\* The leading Hangul syllables of the four grade words, each one character
\* of the text: U+C88B (jo-h, "joh-eum", good), U+BCF4 (bo, "bo-tong", normal),
\* U+B098 (na, "na-ppeum", bad), U+B9E4 (mae, "mae-u na-ppeum", very bad).
\* U+C74C (eum) is a syllable that leads no grade word.
JOH == "U+C88B"
BO == "U+BCF4"
NA == "U+B098"
MAE == "U+B9E4"
EUM == "U+C74C"

\* str::contains
contains(s, lit) == \E i \in 1..Len(s) : StartsWithAt(s, i, lit)

\* from_str with `contains` for `starts_with`
from_str_contains(s) ==
    IF contains(s, <<JOH>>) THEN GradeGood
    ELSE IF contains(s, <<BO>>) THEN GradeNormal
    ELSE IF contains(s, <<NA>>) THEN GradeBad
    ELSE IF contains(s, <<MAE>>) THEN GradeCritical
    ELSE GradeNone

\* Grade::from_str
from_str(s) ==
    IF starts_with(s, <<JOH>>) THEN GradeGood
    ELSE IF starts_with(s, <<BO>>) THEN GradeNormal
    ELSE IF starts_with(s, <<NA>>) THEN GradeBad
    ELSE IF starts_with(s, <<MAE>>) THEN GradeCritical
    ELSE GradeNone

----------------------------------------------------------------------------
(* text of an element *)

\* element.text().map(str::trim).collect::<Vec<_>>().join("")
extract_text_from_element(element) ==
    join([k \in 1..Len(element) |-> trim(element[k])])

----------------------------------------------------------------------------
(* the two regular expressions of parse; `.` matches any character but "\n" *)

\* no line break in s[i..j]
OneLine(s, i, j) == \A k \in i..j : s[k] # "\n"

\* REGEX_NAME = \((.*)\) : captures(&n).and_then(|c| c.get(1)).  The leftmost
\* "(" that a ")" follows on the same line starts the match, and the greedy
\* `.*` runs to the last such ")".
REGEX_NAME_closers(n, i) ==
    {j \in (i + 1)..Len(n) : n[j] = ")" /\ OneLine(n, i + 1, j - 1)}

REGEX_NAME(n) ==
    LET opens == {i \in 1..Len(n) : n[i] = "(" /\ REGEX_NAME_closers(n, i) # {}}
    IN  IF opens = {} THEN None
        ELSE LET i == Min(opens)
                 j == Max(REGEX_NAME_closers(n, i))
             IN  Some(Slice(n, i + 1, j - 1))

\* REGEX_ROW = addRows\(\[(.*)\]\);
ROW_OPEN == <<"a", "d", "d", "R", "o", "w", "s", "(", "[">>
ROW_CLOSE == <<"]", ")", ";">>

\* where a match that starts at i can have its closing "]);"
REGEX_ROW_closers(s, i) ==
    {j \in (i + Len(ROW_OPEN))..Len(s) :
        /\ StartsWithAt(s, j, ROW_CLOSE)
        /\ OneLine(s, i + Len(ROW_OPEN), j - 1)}

\* REGEX_ROW.find_iter(&script): the non-overlapping matches, leftmost first,
\* each as the text of the WHOLE match (row.as_str()), not of its group
RECURSIVE find_iter(_, _)
find_iter(s, i) ==
    IF i > Len(s) THEN <<>>
    ELSE IF StartsWithAt(s, i, ROW_OPEN) /\ REGEX_ROW_closers(s, i) # {}
         THEN LET j == Max(REGEX_ROW_closers(s, i))
              IN  <<Slice(s, i, j + Len(ROW_CLOSE) - 1)>>
                  \o find_iter(s, j + Len(ROW_CLOSE))
         ELSE find_iter(s, i + 1)

REGEX_ROW(script) == find_iter(script, 1)

----------------------------------------------------------------------------
(* str::parse::<f32>                                                       *)
(* For tokens over digits, ".", and characters that occur in no float      *)
(* literal (the tokens the model draws hold no sign, exponent, "inf" or    *)
(* "nan"): Ok exactly for  Digit+ | Digit+ "." Digit* | Digit* "." Digit+, *)
(* no surrounding whitespace allowed.  The value m / 10^e is kept as the   *)
(* pair <<m, e>> with trailing zeros of the fraction removed, so that      *)
(* "7", "7.0" and "07" are the same number and "0" is zero.                *)

Digits == <<"0", "1", "2", "3", "4", "5", "6", "7", "8", "9">>
IsDigit(c) == \E d \in 1..10 : Digits[d] = c
DigitVal(c) == (CHOOSE d \in 1..10 : Digits[d] = c) - 1

RECURSIVE Decimal(_)
Decimal(ds) ==
    IF ds = <<>> THEN 0
    ELSE 10 * Decimal(SubSeq(ds, 1, Len(ds) - 1)) + DigitVal(ds[Len(ds)])

RECURSIVE Normal(_, _)
Normal(m, e) == IF e > 0 /\ m % 10 = 0 THEN Normal(m \div 10, e - 1) ELSE <<m, e>>

parse_f32(s) ==
    LET dots == {k \in 1..Len(s) : s[k] = "."}
        ok   == /\ \A k \in 1..Len(s) : IsDigit(s[k]) \/ s[k] = "."
                /\ Cardinality(dots) <= 1
                /\ \E k \in 1..Len(s) : IsDigit(s[k])
    IN  IF ~ok THEN None
        ELSE LET ds == SelectSeq(s, IsDigit)
                 e  == IF dots = {} THEN 0 ELSE Len(s) - Max(dots)
             IN  Some(Normal(Decimal(ds), e))

----------------------------------------------------------------------------
(* The parsed Html, as the selectors of parse see it:                      *)
(*   h1_tit  the matches of "h1>.tit", each its text nodes                 *)
(*   h1_tim  the matches of "h1>.tim", each its text nodes                 *)
(*   mList   the matches of "div[class^=mList]>ul>li" (graph), each        *)
(*             tit  the matches of ".tit" inside it, each its text nodes   *)
(*             t1   the matches of ".con>.co>.tx>.t1" inside it, each the  *)
(*                  sequence of its children: a text node [text |-> s] or  *)
(*                  a <sub> element [sub |-> its text nodes]               *)
(*   script  the matches of "body>script:last-child", each its text nodes  *)

IsSub(child) == "sub" \in DOMAIN child

\* ElementRef::text() of a .t1 element: its descendant text nodes in document order
RECURSIVE t1_text(_)
t1_text(children) ==
    IF children = <<>> THEN <<>>
    ELSE (IF IsSub(Head(children)) THEN Head(children).sub
          ELSE <<Head(children).text>>) \o t1_text(Tail(children))

\* graph.select(&SELECTOR_UNIT): the <sub> children of the .t1 matches, in order
RECURSIVE SELECTOR_UNIT(_)
SELECTOR_UNIT(t1s) ==
    IF t1s = <<>> THEN <<>>
    ELSE LET subs == SelectSeq(Head(t1s), IsSub)
         IN  [k \in 1..Len(subs) |-> subs[k].sub] \o SELECTOR_UNIT(Tail(t1s))

----------------------------------------------------------------------------
(* fn parse(document: &Html) -> AirStatus *)

station_address(doc) ==
    unwrap_or_default(next(
        [k \in 1..Len(doc.h1_tit) |-> trim(unwrap_or_default(next(doc.h1_tit[k])))]))

time(doc) ==
    unwrap_or_default(next(
        [k \in 1..Len(doc.h1_tim) |-> extract_text_from_element(doc.h1_tim[k])]))

\* the name of a graph: Option<String>
graph_name(graph) ==
    LET n == next(graph.tit)
    IN  IF is_none(n) THEN None
        ELSE REGEX_NAME(extract_text_from_element(unwrap(n)))

graph_grade(graph) ==
    LET g == next(graph.t1)
    IN  IF is_none(g) THEN GradeNone
        ELSE from_str(extract_text_from_element(t1_text(unwrap(g))))

\* graph_unit falling back on the text of the .t1 node when it has no <sub>
graph_unit_or_t1(graph) ==
    LET u == next(SELECTOR_UNIT(graph.t1))
        g == next(graph.t1)
    IN  IF is_some(u) THEN extract_text_from_element(unwrap(u))
        ELSE IF is_some(g) THEN extract_text_from_element(t1_text(unwrap(g)))
        ELSE <<>>

graph_unit(graph) ==
    LET u == next(SELECTOR_UNIT(graph.t1))
    IN  IF is_none(u) THEN <<>>
        ELSE extract_text_from_element(unwrap(u))

\* document.select(&SELECTOR_LIST).map(|graph| (name, unit, grade))
pollutant_keys(doc) ==
    [k \in 1..Len(doc.mList) |->
        <<graph_name(doc.mList[k]), graph_unit(doc.mList[k]), graph_grade(doc.mList[k])>>]

\* data.split(',').filter_map(|s| s.parse::<f32>().ok()).next()
RECURSIVE filter_map_parse_next(_)
filter_map_parse_next(tokens) ==
    IF tokens = <<>> THEN None
    ELSE IF is_some(parse_f32(Head(tokens))) THEN parse_f32(Head(tokens))
         ELSE filter_map_parse_next(Tail(tokens))

\* the reading with `.map(..).next()`: the first token alone decides
row_reading_first_token(data) == parse_f32(Head(split(data, <<",">>)))

row_reading(data) == filter_map_parse_next(split(data, <<",">>))

\* row_data with `filter_map` for `map`: rows without a number left out
row_data_filter_map(row) ==
    LET pieces == split(row, <<"]", ",", "[">>)
    IN  SelectSeq([k \in 1..Len(pieces) |-> row_reading(pieces[k])], is_some)

\* row.split("],[").map(...).collect::<Vec<_>>()
row_data(row) ==
    LET pieces == split(row, <<"]", ",", "[">>)
    IN  [k \in 1..Len(pieces) |-> row_reading(pieces[k])]

\* filter_map_pollutant with `map` and `name.unwrap_or_default()`
RECURSIVE map_pollutant(_)
map_pollutant(pairs) ==
    IF pairs = <<>> THEN <<>>
    ELSE <<[name |-> unwrap_or_default(Head(pairs)[2][1]), unit |-> Head(pairs)[2][2],
            data |-> Head(pairs)[1], grade |-> Head(pairs)[2][3]]>>
         \o map_pollutant(Tail(pairs))

\* .filter_map(|(data, (name, unit, grade))| name.map(|name| Pollutant {..}))
RECURSIVE filter_map_pollutant(_)
filter_map_pollutant(pairs) ==
    IF pairs = <<>> THEN <<>>
    ELSE LET data == Head(pairs)[1]
             key  == Head(pairs)[2]
         IN  (IF is_some(key[1])
              THEN <<[name |-> unwrap(key[1]), unit |-> key[2],
                      data |-> data, grade |-> key[3]]>>
              ELSE <<>>) \o filter_map_pollutant(Tail(pairs))

\* the data vectors of the script text, one per match of REGEX_ROW
script_data(script) ==
    LET rows == REGEX_ROW(script)
    IN  [k \in 1..Len(rows) |-> row_data(rows[k])]

\* pollutants keeping the keyed blocks, with no data, when there is no script
pollutants_without_script(doc) ==
    LET script == next(doc.script)
    IN  IF is_none(script)
        THEN filter_map_pollutant(
                 [k \in 1..Len(doc.mList) |-> << <<>>, pollutant_keys(doc)[k] >>])
        ELSE filter_map_pollutant(
                 zip(script_data(extract_text_from_element(unwrap(script))),
                     pollutant_keys(doc)))

pollutants(doc) ==
    LET script == next(doc.script)
    IN  IF is_none(script) THEN <<>>
        ELSE filter_map_pollutant(
                 zip(script_data(extract_text_from_element(unwrap(script))),
                     pollutant_keys(doc)))

parse(doc) ==
    [station_address |-> station_address(doc),
     time            |-> time(doc),
     pollutants      |-> pollutants(doc)]

\* into_iter yielding from the back of the Vec
into_iter_rev(self) ==
    [k \in 1..Len(self.pollutants) |-> self.pollutants[Len(self.pollutants) + 1 - k]]

\* impl IntoIterator for AirStatus
into_iter(self) == self.pollutants

----------------------------------------------------------------------------
(* The pages the server may answer with *)

MaxBlocks == 2      \* list blocks of a page
MaxLines == 2       \* lines of the embedded script

SeqsUpTo(S, n) == UNION {[1..k -> S] : k \in 0..n}

\* ".tit" of a block: none; " s" (no code); "s " + "(P)"; "(Q)"
TitNone == <<>>
TitPlain == << << <<" ", "s">> >> >>
TitP == << << <<"s", " ">>, <<"(", "P", ")">> >> >>
TitQ == << << <<"(", "Q", ")">> >> >>

\* ".t1" of a block: none; the word alone; the word and its <sub> unit
T1None == <<>>
T1Word == << << [text |-> <<NA, " ">>] >> >>
T1Full == << << [text |-> <<"\n", JOH, EUM>>], [sub |-> << <<"p", "p", "m">> >>] >> >>

Graph(tit, t1) == [tit |-> tit, t1 |-> t1]

\* two cards without a code, four with one
Graphs ==
    {Graph(TitNone, T1Full), Graph(TitPlain, T1Word),
     Graph(TitP, T1None), Graph(TitP, T1Full),
     Graph(TitQ, T1Word), Graph(TitQ, T1Full)}

\* lines of the script, one chart call each: "addRows([[a,7],[x]]);" and
\* "v;addRows([[y,4,z]]);"
LineA == ROW_OPEN \o <<"[", "a", ",", "7", "]", ",", "[", "x", "]">>
                  \o ROW_CLOSE \o <<"\n">>
LineB == <<"v", ";">> \o ROW_OPEN \o <<"[", "y", ",", "4", ",", "z", "]">>
                      \o ROW_CLOSE \o <<"\n">>

\* no script node, or one whose text is at most MaxLines lines
Scripts ==
    {<<>>} \cup {<< <<join(ls)>> >> : ls \in SeqsUpTo({LineA, LineB}, MaxLines)}

\* h1: no .tit and no .tim; " S " + "x" alone; with "1 " + " h"
Heads ==
    {<< <<>>, <<>> >>,
     << << <<<<" ", "S", " ">>, <<"x">>>> >>, <<>> >>,
     << << <<<<" ", "S", " ">>, <<"x">>>> >>, << <<<<"1", " ">>, <<" ", "h">>>> >> >>}

Documents ==
    {[h1_tit |-> h[1], h1_tim |-> h[2], mList |-> m, script |-> sc] :
        h \in Heads, m \in SeqsUpTo(Graphs, MaxBlocks), sc \in Scripts}

----------------------------------------------------------------------------
(* pub fn search: request(addr).map(|html| parse(&html)) *)

Ok(item) == [ok |-> TRUE, item |-> item]
Err == [ok |-> FALSE]

Init ==
    /\ html = None
    /\ status = None
    /\ iterated = None
    /\ input = <<>>
    /\ output = None
    /\ pc = "start"

\* request resolves to the parsed body
Request ==
    /\ pc = "start"
    /\ \E doc \in Documents : html' = Some(doc)
    /\ pc' = "fetched"
    /\ UNCHANGED <<status, iterated, input, output>>

\* request fails: the error passes through search unchanged
RequestFails ==
    /\ pc = "start"
    /\ status' = Some(Err)
    /\ pc' = "failed"
    /\ UNCHANGED <<html, iterated, input, output>>

\* .map(|html| parse(&html))
Parse ==
    /\ pc = "fetched"
    /\ status' = Some(Ok(parse(unwrap(html))))
    /\ pc' = "resolved"
    /\ UNCHANGED <<html, iterated, input, output>>

\* for pollutant in status { .. }
IntoIter ==
    /\ pc = "resolved"
    /\ iterated' = Some(into_iter(unwrap(status).item))
    /\ pc' = "iterated"
    /\ UNCHANGED <<html, status, input, output>>

Next == Request \/ RequestFails \/ Parse \/ IntoIter

Spec == Init /\ [][Next]_vars

----------------------------------------------------------------------------
(* Grade::from_str alone, on every short text over the grade syllables *)

MaxGradeLen == 3

GradeChars == {JOH, BO, NA, MAE, EUM, " "}

InitGrade ==
    /\ html = None
    /\ status = None
    /\ iterated = None
    /\ input \in SeqsUpTo(GradeChars, MaxGradeLen)
    /\ output = None
    /\ pc = "start"

CallFromStr ==
    /\ pc = "start"
    /\ output' = Some(from_str(input))
    /\ pc' = "done"
    /\ UNCHANGED <<html, status, iterated, input>>

NextGrade == CallFromStr

SpecGrade == InitGrade /\ [][NextGrade]_vars

----------------------------------------------------------------------------
(* REGEX_NAME alone, on every short label over parentheses, a letter and a  *)
(* line break                                                              *)

MaxLabelLen == 4

LabelChars == {"(", ")", "M", "\n"}

InitName ==
    /\ html = None
    /\ status = None
    /\ iterated = None
    /\ input \in SeqsUpTo(LabelChars, MaxLabelLen)
    /\ output = None
    /\ pc = "start"

CallRegexName ==
    /\ pc = "start"
    /\ output' = Some(REGEX_NAME(input))
    /\ pc' = "done"
    /\ UNCHANGED <<html, status, iterated, input>>

NextName == CallRegexName

SpecName == InitName /\ [][NextName]_vars

----------------------------------------------------------------------------
(* The decoding of one chart call.  The call is drawn as its cells (the    *)
(* comma-separated tokens, in order) and the set of cells a row ends       *)
(* after; its text is addRows([[c1,c2],[c3],...]);                         *)

MaxCells == 4

\* a number, another number, a word, a blank
Tokens == {<<"7">>, <<"4", ".", "0">>, <<"x">>, <<>>}

CallInputs ==
    UNION {[cells : [1..n -> Tokens], breaks : SUBSET (1..(n - 1))] : n \in 1..MaxCells}

RECURSIVE RenderCells(_, _)
RenderCells(call, k) ==
    IF k > Len(call.cells) THEN <<>>
    ELSE call.cells[k]
         \o (IF k = Len(call.cells) THEN <<>>
             ELSE IF k \in call.breaks THEN <<"]", ",", "[">>
             ELSE <<",">>)
         \o RenderCells(call, k + 1)

Render(call) == ROW_OPEN \o <<"[">> \o RenderCells(call, 1) \o <<"]">> \o ROW_CLOSE

InitRow ==
    /\ html = None
    /\ status = None
    /\ iterated = None
    /\ input \in CallInputs
    /\ output = None
    /\ pc = "start"

CallScriptData ==
    /\ pc = "start"
    /\ output' = Some(script_data(Render(input)))
    /\ pc' = "done"
    /\ UNCHANGED <<html, status, iterated, input>>

NextRow == CallScriptData

SpecRow == InitRow /\ [][NextRow]_vars

----------------------------------------------------------------------------
(* Properties of search / parse (specification Spec) *)

Doc == unwrap(html)
Resolved == pc \in {"resolved", "iterated"}
Returned == unwrap(status).item
Out == unwrap(status).item.pollutants

\* the text of the script node, and the data vectors of its calls
ScriptText == extract_text_from_element(Doc.script[1])
Datas == IF Doc.script = <<>> THEN <<>> ELSE script_data(ScriptText)

\* the label of the block holds no parenthesis at all
NoParen(graph) ==
    \A e \in 1..Len(graph.tit) : \A n \in 1..Len(graph.tit[e]) :
        \A c \in 1..Len(graph.tit[e][n]) : graph.tit[e][n][c] \notin {"(", ")"}

HasSub(graph) ==
    \E e \in 1..Len(graph.t1) : \E c \in 1..Len(graph.t1[e]) : IsSub(graph.t1[e][c])

\* the strictly increasing maps of 1..n into 1..m
Increasing(n, m) ==
    {f \in [1..n -> 1..m] : \A i, j \in 1..n : i < j => f[i] < f[j]}

\* the elements of a finite set of numbers, ascending
RECURSIVE Ascending(_)
Ascending(S) == IF S = {} THEN <<>> ELSE <<Min(S)>> \o Ascending(S \ {Min(S)})

\* C1: a list block whose label holds no parenthesized code is never emitted:
\* there are no more pollutants than blocks with a code, and the name, unit
\* and grade of every pollutant are those of a block with a code, whatever
\* the other blocks hold and however many calls the script has.
C1_CodelessBlockNeverEmitted ==
    Resolved =>
        LET coded == {k \in 1..Len(Doc.mList) : ~NoParen(Doc.mList[k])}
        IN  /\ Len(Out) <= Cardinality(coded)
            /\ \A i \in 1..Len(Out) : \E k \in coded :
                  /\ Out[i].name = unwrap(graph_name(Doc.mList[k]))
                  /\ Out[i].unit = graph_unit(Doc.mList[k])
                  /\ Out[i].grade = graph_grade(Doc.mList[k])

\* C1 witness: a code-less block with a full grade and unit node stands where
\* a call exists, beside an emitted pollutant
C1_Witness ==
    /\ Resolved
    /\ Len(Out) >= 1
    /\ \E k \in 1..Len(Doc.mList) :
          /\ NoParen(Doc.mList[k])
          /\ HasSub(Doc.mList[k])
          /\ k <= Len(Datas)

HasName(key) == is_some(key[1])

\* pairing as C2 states it: the blocks without a code are removed first
FilteredThenPaired ==
    LET keys == SelectSeq(pollutant_keys(Doc), HasName)
        n    == IF Len(keys) <= Len(Datas) THEN Len(keys) ELSE Len(Datas)
    IN  [k \in 1..n |-> [name |-> unwrap(keys[k][1]), unit |-> keys[k][2],
                         data |-> Datas[k], grade |-> keys[k][3]]]

\* C2: the k-th block with a code gets the data of the k-th call: a code-less
\* block before it takes no call and moves no data.
C2_FilteredBeforePairing ==
    (Resolved /\ Doc.script # <<>>) => Out = FilteredThenPaired

\* C3, as stated: without a script node the caller gets a failure
C3_NoScriptIsFailure ==
    (is_some(status) /\ is_some(html) /\ Doc.script = <<>>) => unwrap(status) = Err

\* C3, amended: without a script node the extraction does not fail; it
\* resolves to an AirStatus whose pollutant sequence is empty.
C3_NoScriptIsEmptyStatus ==
    (Resolved /\ Doc.script = <<>>) =>
        /\ unwrap(status).ok
        /\ Out = <<>>

\* C3 witness: no script node, and a block with a code that could have been emitted
C3_Witness ==
    /\ Resolved
    /\ Doc.script = <<>>
    /\ \E k \in 1..Len(Doc.mList) : ~NoParen(Doc.mList[k])
    /\ unwrap(status).ok
    /\ Out = <<>>

\* C5: a block with no call at its position is dropped, not emitted with
\* empty data: no more pollutants than matched calls, the pollutants carry
\* the data vectors of distinct calls in call order, and no data is empty.
C5_EveryPollutantHasItsCall ==
    Resolved =>
        LET out   == Out
            datas == Datas
        IN  /\ Len(out) <= Len(datas)
            /\ \E f \in Increasing(Len(out), Len(datas)) :
                  \A i \in 1..Len(out) : out[i].data = datas[f[i]]
            /\ \A i \in 1..Len(out) : out[i].data # <<>>

\* C5 witness: more blocks than calls, the last block with a code
C5_Witness ==
    /\ Resolved
    /\ Len(Datas) >= 1
    /\ Len(Doc.mList) > Len(Datas)
    /\ ~NoParen(Doc.mList[Len(Doc.mList)])
    /\ Len(Out) = Len(Datas)

\* C6: the names of the pollutants are, in order, names of list blocks taken
\* in document order, and iterating the AirStatus yields its pollutants
\* field element by element.
C6_PresentationOrder ==
    Resolved =>
        /\ \E f \in Increasing(Len(Out), Len(Doc.mList)) :
              \A i \in 1..Len(Out) :
                  /\ is_some(graph_name(Doc.mList[f[i]]))
                  /\ Out[i].name = unwrap(graph_name(Doc.mList[f[i]]))
        /\ pc = "iterated" => unwrap(iterated) = Out

\* C6 witness: two pollutants of different names were iterated over
C6_Witness ==
    /\ pc = "iterated"
    /\ Len(Out) >= 2
    /\ Out[1].name # Out[2].name
    /\ Len(unwrap(iterated)) >= 2

\* the positions of the blocks that are emitted: a call exists there and the
\* label holds a code
EmittedBlocks(calls) ==
    Ascending({k \in 1..Len(Doc.mList) : k <= calls /\ ~NoParen(Doc.mList[k])})

\* C7: no match is data, not failure.  parse returns an AirStatus for every
\* document; station_address and time are empty when their selectors match
\* nothing; every pollutant is made of its own block and call alone, with an
\* empty unit when the block has no <sub> and Grade::None when it has no
\* grade node.
C7_NoMatchIsData ==
    Resolved =>
        LET out     == Out
            datas   == Datas
            emitted == EmittedBlocks(Len(datas))
        IN  /\ unwrap(status).ok
            /\ Doc.h1_tit = <<>> => Returned.station_address = <<>>
            /\ Doc.h1_tim = <<>> => Returned.time = <<>>
            /\ Len(out) = Len(emitted)
            /\ \A i \in 1..Len(out) :
                  LET graph == Doc.mList[emitted[i]]
                  IN  /\ out[i].name = unwrap(graph_name(graph))
                      /\ out[i].data = datas[emitted[i]]
                      /\ out[i].unit = IF HasSub(graph) THEN <<"p", "p", "m">> ELSE <<>>
                      /\ out[i].grade = IF graph.t1 = <<>> THEN GradeNone
                                        ELSE graph_grade(graph)

\* C7 witness: no station, a pollutant of a block without grade node and one
\* of a block with a grade word and no unit
C7_Witness ==
    /\ Resolved
    /\ Doc.h1_tit = <<>>
    /\ Returned.station_address = <<>>
    /\ Len(Out) >= 2
    /\ LET emitted == EmittedBlocks(Len(Datas))
       IN  \E i, j \in 1..Len(Out) :
              /\ Doc.mList[emitted[i]].t1 = <<>>
              /\ Out[i].grade = GradeNone
              /\ Doc.mList[emitted[j]].t1 # <<>>
              /\ ~HasSub(Doc.mList[emitted[j]])
              /\ Out[j].unit = <<>>
              /\ Out[j].grade = GradeBad

----------------------------------------------------------------------------
(* Properties of Grade::from_str (specification SpecGrade) *)

\* the grade the leading character stands for
GradeOfLeadingGlyph(s) ==
    IF s = <<>> THEN GradeNone
    ELSE CASE Head(s) = JOH -> GradeGood
           [] Head(s) = BO  -> GradeNormal
           [] Head(s) = NA  -> GradeBad
           [] Head(s) = MAE -> GradeCritical
           [] OTHER         -> GradeNone

\* C4: from_str is total onto the five grades and decided by the leading
\* character alone: the grade of that character whatever follows it, and
\* Grade::None for the empty text and for any other leading character.
C4_GradeByLeadingGlyph ==
    pc = "done" =>
        /\ unwrap(output) \in Grade
        /\ unwrap(output) = GradeOfLeadingGlyph(input)

\* C4 witness: a text that leads with U+BCF4 and goes on with the leading
\* character of another grade was classified Normal
C4_Witness ==
    /\ pc = "done"
    /\ Len(input) >= 2
    /\ input[1] = BO
    /\ input[2] = JOH
    /\ output = Some(GradeNormal)

----------------------------------------------------------------------------
(* Properties of REGEX_NAME (specification SpecName) *)

\* the text between the first "(" that a ")" follows and the first ")" after it
FirstGroup(s) ==
    LET opens == {i \in 1..Len(s) : s[i] = "(" /\ \E j \in (i + 1)..Len(s) : s[j] = ")"}
    IN  IF opens = {} THEN None
        ELSE LET i == Min(opens)
                 j == Min({k \in (i + 1)..Len(s) : s[k] = ")"})
             IN  Some(Slice(s, i + 1, j - 1))

\* C10: the name recovered from a label is the inside of its FIRST
\* parenthesized group, from the first "(" to the first ")" after it, also
\* when more parentheses follow; none when the label has no group.
C10_FirstParenthesizedGroup ==
    (pc = "done" /\ \A k \in 1..Len(input) : input[k] # "\n") =>
        unwrap(output) = FirstGroup(input)

----------------------------------------------------------------------------
(* Properties of the decoding of a call (specification SpecRow) *)

RowCount(call) == Cardinality(call.breaks) + 1

\* the row a cell stands in, and the cells of a row in order
RowOf(call, k) == 1 + Cardinality({b \in call.breaks : b < k})
CellsOfRow(call, i) ==
    Ascending({k \in 1..Len(call.cells) : RowOf(call, k) = i})

\* the data vector of the one call of the text
Data == unwrap(output)[1]

\* the tokens of row i as the text between two "],[" holds them: the first
\* cell of the call still has "addRows([[" before it and the last "]]);"
\* after it
TokensOfRow(call, i) ==
    [n \in 1..Len(CellsOfRow(call, i)) |->
        LET k == CellsOfRow(call, i)[n]
        IN  (IF k = 1 THEN ROW_OPEN \o <<"[">> ELSE <<>>)
            \o call.cells[k]
            \o (IF k = Len(call.cells) THEN <<"]">> \o ROW_CLOSE ELSE <<>>)]

\* the value of the first token that is a number, if any
FirstNumber(tokens) ==
    LET numeric == {n \in 1..Len(tokens) : is_some(parse_f32(tokens[n]))}
    IN  IF numeric = {} THEN None ELSE parse_f32(tokens[Min(numeric)])

\* C8, as stated: the first token of a row alone decides its reading, a
\* number when it parses and None when it does not
C8_FirstTokenDecides ==
    pc = "done" =>
        \A i \in 1..Len(Data) :
            Data[i] = parse_f32(TokensOfRow(input, i)[1])

\* C8, amended: the reading of a row is the value of the first of its tokens
\* that parses as a number, the tokens before it being skipped, and None
\* only when no token of the row parses; the row's own tokens alone decide.
C8_FirstNumericTokenDecides ==
    pc = "done" =>
        /\ Len(Data) = RowCount(input)
        /\ \A i \in 1..Len(Data) : Data[i] = FirstNumber(TokensOfRow(input, i))

\* C8 witness: a row "x,7,.." was read as 7
C8_Witness ==
    /\ pc = "done"
    /\ Len(input.cells) >= 3
    /\ input.cells[1] = <<"x">>
    /\ input.cells[2] = <<"7">>
    /\ input.breaks \cap {1, 2} = {}
    /\ Data[1] = Some(<<7, 0>>)

\* C9: a call of n rows decodes to exactly n entries, entry i being made of
\* row i: it is a number only if row i holds one, and then the value of one
\* of the tokens of row i.
C9_RowCountAndOrderKept ==
    pc = "done" =>
        /\ Len(unwrap(output)) = 1
        /\ Len(Data) = RowCount(input)
        /\ \A i \in 1..Len(Data) :
              is_some(Data[i]) =>
                  \E n \in 1..Len(CellsOfRow(input, i)) :
                      Data[i] = parse_f32(input.cells[CellsOfRow(input, i)[n]])

\* C9 witness: three rows, a number in the first and none in the second
C9_Witness ==
    /\ pc = "done"
    /\ RowCount(input) = 3
    /\ Len(Data) = 3
    /\ is_some(Data[1])
    /\ is_none(Data[2])

====
